---- MODULE Spec2Model ----
(***************************************************************************)
(* Model of the enrichment pipeline of Financial-AI_Analysis:               *)
(* run_enhanced_financial_pipeline (magentic_agent_enhanced.py) driving the *)
(* Finance record store of tools_enhanced.py through its collaborators.     *)
(*                                                                          *)
(* One action is one resumption of the coroutine: a collaborator call       *)
(* completes (with every outcome the collaborator can produce) and the      *)
(* driver runs up to its next await.  pc names the await the run is         *)
(* suspended at.                                                            *)
(***************************************************************************)
EXTENDS Integers, Sequences, FiniteSets, TLC

VARIABLES cfg, pc, guid, store, articles, iteration, last_step, finance,
          inspect_json, decision, loop_exit, financial_data_summary,
          analysis_summary, finance_final, result, calls, errors,
          clients, last, agent_output, step, normalized

vars == <<cfg, pc, guid, store, articles, iteration, last_step, finance,
          inspect_json, decision, loop_exit, financial_data_summary,
          analysis_summary, finance_final, result, calls, errors,
          clients, last, agent_output, step, normalized>>

\* the state of one pipeline run
runVars == <<cfg, pc, guid, articles, iteration, last_step, finance,
             inspect_json, decision, loop_exit, financial_data_summary,
             analysis_summary, finance_final, result, calls, errors>>

\* the callers of the record-store tools other than the run
toolVars == <<clients, last>>

\* one call of the normalizer on a text
normVars == <<agent_output, step, normalized>>

----------------------------------------------------------------------------
(* Bounds *)

MaxLoops == 5

\* tool calls explored on the record store
MaxCalls == 5

----------------------------------------------------------------------------
(* Dictionaries (parsed JSON objects), Python truthiness, Optional values *)

EmptyDict == [k \in {} |-> ""]

\* dict.get(k): a missing key and a null/empty value are both falsy; "" stands for both
Get(d, k) == IF k \in DOMAIN d THEN d[k] ELSE ""

\* dict.get(k, default)
GetDefault(d, k, default) == IF k \in DOMAIN d THEN d[k] ELSE default

\* Optional[Dict]: None is the empty set, a dict d is {d}
None == {}

Some(d) == {d}

\* `if x:` on an Optional[Dict]: None and the empty dict are both falsy
Truthy(opt) == \E d \in opt : DOMAIN d # {}

----------------------------------------------------------------------------
(* The Finance record and the record store (tools_enhanced.py) *)

FieldNames == {"prompt", "guid", "ticker", "date", "currency", "description",
               "isin", "Price", "News_Sentiment"}

IdentityFields == {"ticker", "description", "currency", "isin"}

Guids == {"g1"}

\* Finance(prompt=prompt, guid=uuid4, date=today): every other field is None
NewFinance(g) ==
    [f \in FieldNames |-> IF f = "guid" THEN g
                          ELSE IF f \in {"prompt", "date"} THEN "v" ELSE ""]

\* mutant: an unknown identifier yields an empty record instead of an error object
finance_loadBlank(s, g) ==
    IF g \in DOMAIN s THEN s[g] ELSE NewFinance(g)

\* finance_load: the stored record, or an error object when no file exists
finance_load(s, g) ==
    IF g \in DOMAIN s THEN s[g] ELSE [error |-> "No Finance state found"]

\* mutant: a field-level merge, an empty field keeps the stored value
finance_saveMerge(s, rec) ==
    [g \in DOMAIN s \cup {rec["guid"]} |->
        IF g # rec["guid"] THEN s[g]
        ELSE IF g \notin DOMAIN s THEN rec
        ELSE [f \in DOMAIN rec |-> IF rec[f] = "" THEN s[g][f] ELSE rec[f]]]

\* mutant: the file written is an existing one, whatever guid the record carries
finance_saveWrongFile(s, rec) ==
    IF DOMAIN s = {} THEN [g \in {rec["guid"]} |-> rec]
    ELSE [g \in DOMAIN s |-> IF g = (CHOOSE h \in DOMAIN s : TRUE) THEN rec ELSE s[g]]

\* finance_save of a valid record that carries a guid: the file is rewritten whole
finance_save(s, rec) ==
    [g \in DOMAIN s \cup {rec["guid"]} |-> IF g = rec["guid"] THEN rec ELSE s[g]]

\* load -> modify -> save by an enrichment collaborator: the fields in W are
\* populated.  The collaborator composes the saved JSON itself and save is a
\* full overwrite: with keep the other fields are carried over, without it
\* only the creation fields are.  With no stored record nothing is updated.
Enrich(s, g, W, keep) ==
    IF g \in DOMAIN s
    THEN finance_save(s, [f \in FieldNames |->
                            IF f \in W THEN "v"
                            ELSE IF keep THEN s[g][f] ELSE NewFinance(g)[f]])
    ELSE s

----------------------------------------------------------------------------
(* The record-store tools as called with a payload (tools_enhanced.py 62-154) *)

\* identifiers uuid4 can produce
Uuids == {"g1", "g2"}

\* datetime.utcnow().date().isoformat()
Today == "v"

\* a JSON value whose type no declared field type accepts (a list for a scalar)
WrongType == "[]"

\* The finance_json argument, by what _extract_json_obj finds in it:
\*   "object"   the stripped text is one JSON object
\*   "embedded" the text is not a JSON object (prose, or an array) but its
\*              first-brace-to-last-brace substring is one
\*   "none"     no brace-delimited substring
\*   "invalid"  a brace-delimited substring that json.loads rejects
Payload(kind, obj) == [kind |-> kind, obj |-> obj]

\* _extract_json_obj returns a dict (otherwise it raises)
Extracts(p) == p.kind \in {"object", "embedded"}

\* mutant: no type validation
ValidatesAnything(data) == TRUE

\* Finance.model_validate(data) accepts: every declared field that is given
\* has a value of its declared type (unknown keys are ignored)
Validates(data) == \A k \in DOMAIN data \cap FieldNames : data[k] # WrongType

\* the validated model: fields not given take their default None
Model(data) == [f \in FieldNames |-> IF f \in DOMAIN data THEN data[f] ELSE ""]

\* if not fin.guid: fin.guid = uuid4; if not fin.date: fin.date = today
WithDefaults(fin, fresh) ==
    [f \in FieldNames |->
        IF f = "guid" /\ fin[f] = "" THEN fresh
        ELSE IF f = "date" /\ fin[f] = "" THEN Today
        ELSE fin[f]]

\* mutant: a save that would blank a populated field of the stored record is refused
SaveToolGuarded(s, p, fresh) ==
    IF /\ Extracts(p) /\ Validates(p.obj)
       /\ \A f \in FieldNames :
             (Get(p.obj, "guid") \in DOMAIN s /\ s[Get(p.obj, "guid")][f] # "" /\ f # "date")
                => Model(p.obj)[f] # ""
    THEN [store |-> finance_save(s, WithDefaults(Model(p.obj), fresh)),
          resp |-> [guid |-> WithDefaults(Model(p.obj), fresh)["guid"]]]
    ELSE [store |-> s, resp |-> [error |-> "e"]]

\* finance_save(finance_json): the new store and the returned JSON; every
\* exception inside is caught and returned as {"error": ...}
SaveTool(s, p, fresh) ==
    IF Extracts(p) /\ Validates(p.obj)
    THEN [store |-> finance_save(s, WithDefaults(Model(p.obj), fresh)),
          resp |-> [guid |-> WithDefaults(Model(p.obj), fresh)["guid"]]]
    ELSE [store |-> s, resp |-> [error |-> "e"]]

\* mutant: the identifier is a fixed one, not a new one
InitToolFixedId(s, fresh) ==
    [store |-> finance_save(s, NewFinance("g1")), resp |-> [guid |-> "g1"]]

\* finance_init(prompt): a record with guid, date and prompt, stored under a new guid
InitTool(s, fresh) ==
    [store |-> finance_save(s, NewFinance(fresh)), resp |-> [guid |-> fresh]]

\* the callers of the tools: each keeps the record it loaded last (local)
\* and the record it saved last with success (saved)
Clients == {"c1", "c2"}

\* the field a caller enriches in its load -> modify -> save cycle
FieldOf(c) == IF c = "c1" THEN "ticker" ELSE "News_Sentiment"

IdleClient == [local |-> EmptyDict, saved |-> EmptyDict]

\* the last tool call: its name, caller, arguments, response and the store
\* before it; n counts the calls made so far
NoOp == [op |-> "none", client |-> "", guid |-> "", payload |-> Payload("none", EmptyDict),
         resp |-> EmptyDict, before |-> [g \in {} |-> EmptyDict], n |-> 0]

ToolsIdle ==
    /\ clients = [c \in Clients |-> IdleClient]
    /\ last = NoOp

\* no normalizer call in progress
NormalizerIdle ==
    /\ agent_output = <<>>
    /\ step = ""
    /\ normalized = [status |-> "none"]

----------------------------------------------------------------------------
(* Configuration (agent_dependencies.py) *)

DefaultRequired ==
    <<"guid", "ticker", "description", "currency", "isin", "News_Sentiment">>

RequiredFieldLists ==
    { DefaultRequired,
      <<"guid", "News_Sentiment">>,
      <<"guid", "ticker">>,
      <<"guid", "ticker", "description", "currency", "isin", "News_Sentiment", "Price">> }

\* the iteration cap is an integer >= 1 (default 10), bounded here by MaxLoops
Configs ==
    [max_loops : 1..MaxLoops,
     required_fields : RequiredFieldLists,
     fetch_comprehensive_data : BOOLEAN,
     perform_analysis : BOOLEAN]

----------------------------------------------------------------------------
(* Collaborator outputs and the normalizer as seen by the driver *)

\* What an awaited agent.run can produce: it raises, or it returns text that
\* holds no JSON object, or text that normalizes to the object obj
Raises == [kind |-> "raise"]

NoJson == [kind |-> "text"]

Json(obj) == [kind |-> "json", obj |-> obj]

\* _parse_json_output: an object, or ValueError
ParseOk(out) == out.kind = "json"

Range(s) == {s[i] : i \in 1..Len(s)}

----------------------------------------------------------------------------
(* Guard chain (lines 178-202) *)

\* required_missing = [k for k in cfg.required_fields if not finance.get(k)]
required_missing(fin, required) ==
    SelectSeq(required, LAMBDA k : Get(fin, k) = "")

\* mutant: every identity field is looked at, listed as required or not
Guard1Unlisted(fin, required) ==
    \E field \in IdentityFields : Get(fin, field) = ""

\* mutant: an error object is not taken for a record with missing fields
Guard1RecordOnly(fin, required) ==
    /\ "error" \notin DOMAIN fin
    /\ \E field \in IdentityFields : field \in Range(required_missing(fin, required))

\* mutant: only the ticker is looked for in required_missing
Guard1TickerOnly(fin, required) ==
    "ticker" \in Range(required_missing(fin, required))

\* any(field in required_missing for field in ("ticker", "description", "currency", "isin"))
Guard1(fin, required) ==
    \E field \in IdentityFields : field \in Range(required_missing(fin, required))

\* mutant: the existence of the artifact is not tested
Guard2Untested(art) == TRUE

\* not articles_file.exists()
Guard2(art) == art = 0

\* not finance.get("News_Sentiment")
Guard3(fin) == Get(fin, "News_Sentiment") = ""

\* mutant: the sentiment guard is tested before the identity guard
GuardChainSentimentFirst(fin, required, art) ==
    IF Guard3(fin) THEN "await_sentiment"
    ELSE IF Guard1(fin, required) THEN "await_entity"
    ELSE IF Guard2(art) THEN "await_news"
    ELSE "await_inspector"

\* mutant: the artifact guard is left to the delegate
GuardChainNoNewsGuard(fin, required, art) ==
    IF Guard1(fin, required) THEN "await_entity"
    ELSE IF Guard3(fin) THEN "await_sentiment"
    ELSE "await_inspector"

\* mutant: the sentiment guard is left to the delegate
GuardChainNoSentimentGuard(fin, required, art) ==
    IF Guard1(fin, required) THEN "await_entity"
    ELSE IF Guard2(art) THEN "await_news"
    ELSE "await_inspector"

\* the await the iteration suspends at after the guards were evaluated in order
GuardChain(fin, required, art) ==
    IF Guard1(fin, required) THEN "await_entity"
    ELSE IF Guard2(art) THEN "await_news"
    ELSE IF Guard3(fin) THEN "await_sentiment"
    ELSE "await_inspector"

\* the collaborator awaited at each suspension point
Callee(p) ==
    CASE p \in {"await_load", "await_data_load", "await_final_load"} -> "finance_load"
      [] p \in {"await_entity", "await_next_entity", "await_default_entity"} -> "entity_agent"
      [] p \in {"await_news", "await_next_news"} -> "news_agent"
      [] p \in {"await_sentiment", "await_next_sentiment", "await_final_sentiment"} -> "sentiment_agent"
      [] p = "await_inspector" -> "inspector_agent"
      [] p = "await_orchestrator" -> "orchestrator_agent"
      [] p = "await_financial_data" -> "financial_data_agent"
      [] p = "await_analysis" -> "analysis_agent"
      [] p = "await_init" -> "init_agent"

----------------------------------------------------------------------------
(* Straight-line code between awaits: each sets pc, calls, iteration, loop_exit *)

\* suspend at await p, having issued the call to its collaborator
Await(c, p) ==
    /\ pc' = p
    /\ calls' = Append(c, Callee(p))

\* Step 5 starts: finance_final = await _load_finance_with_entity(...)
Step5(c) == Await(c, "await_final_load")

\* Step 4: analysis only if perform_analysis
Step4(c) ==
    IF cfg.perform_analysis
    THEN Await(c, "await_analysis")
    ELSE Step5(c)

\* Step 3: the record is reloaded only if fetch_comprehensive_data
Step3 ==
    IF cfg.fetch_comprehensive_data
    THEN Await(<<>>, "await_data_load")
    ELSE Step4(<<>>)

\* mutant: a while-True loop, the cap is never tested
LoopTopUncapped ==
    /\ iteration' = iteration + 1
    /\ Await(<<>>, "await_load")
    /\ loop_exit' = loop_exit

\* mutant: exhausting the budget raises instead of falling through to Step 3
LoopTopCapRaises ==
    IF iteration < cfg.max_loops
    THEN /\ iteration' = iteration + 1
         /\ Await(<<>>, "await_load")
         /\ loop_exit' = loop_exit
    ELSE /\ iteration' = iteration
         /\ loop_exit' = "cap"
         /\ pc' = "failed"
         /\ calls' = calls

\* mutant: the next iteration evaluates the guards on the record it already holds
LoopTopNoReload ==
    IF iteration < cfg.max_loops
    THEN /\ iteration' = iteration + 1
         /\ Await(<<>>, GuardChain(finance, cfg.required_fields, articles))
         /\ loop_exit' = loop_exit
    ELSE /\ iteration' = iteration
         /\ loop_exit' = "cap"
         /\ Step3

\* for iteration in range(cfg.max_loops): next iteration, or the loop is exhausted
LoopTop ==
    IF iteration < cfg.max_loops
    THEN /\ iteration' = iteration + 1
         /\ Await(<<>>, "await_load")
         /\ loop_exit' = loop_exit
    ELSE /\ iteration' = iteration
         /\ loop_exit' = "cap"
         /\ Step3

\* break on a final decision
Break ==
    /\ iteration' = iteration
    /\ loop_exit' = "final"
    /\ Step3

\* mutant: the failing call is awaited again instead of the exception leaving
PropagateRetry(stage) ==
    /\ pc' = pc
    /\ errors' = errors \cup {stage}
    /\ UNCHANGED <<toolVars, normVars, cfg, guid, store, articles, iteration, last_step, finance,
                   inspect_json, decision, loop_exit, financial_data_summary,
                   analysis_summary, finance_final, result, calls>>

\* an exception leaves the coroutine: nothing of the driver runs afterwards
Propagate(stage) ==
    /\ pc' = "failed"
    /\ errors' = errors \cup {stage}
    /\ loop_exit' = IF loop_exit = "running" THEN "error" ELSE loop_exit
    /\ UNCHANGED <<toolVars, normVars, cfg, guid, store, articles, iteration, last_step, finance,
                   inspect_json, decision, financial_data_summary, analysis_summary,
                   finance_final, result, calls>>

----------------------------------------------------------------------------
(* Initial state: the coroutine is suspended at init_agent.run (line 165) *)

Init ==
    /\ cfg \in Configs
    /\ pc = "await_init"
    /\ guid = ""
    /\ store = [g \in {} |-> EmptyDict]
    /\ articles = 0
    /\ iteration = 0
    /\ last_step = ""
    /\ finance = EmptyDict
    /\ inspect_json = EmptyDict
    /\ decision = EmptyDict
    /\ loop_exit = "running"
    /\ financial_data_summary = None
    /\ analysis_summary = None
    /\ finance_final = EmptyDict
    /\ result = EmptyDict
    /\ calls = <<Callee("await_init")>>
    /\ errors = {}
    /\ ToolsIdle
    /\ NormalizerIdle

----------------------------------------------------------------------------
(* Step 1: creation (lines 163-174) *)

\* the init collaborator may or may not have called finance_init, and may
\* answer with a guid, with an object without guid, with no JSON, or raise
InitOutputs == {Raises, NoJson, Json(EmptyDict)} \cup {Json([guid |-> g]) : g \in Guids}

InitAgentReturns ==
    /\ pc = "await_init"
    /\ \E out \in InitOutputs, created \in BOOLEAN :
         IF ~ParseOk(out) \/ Get(out.obj, "guid") = ""
         THEN /\ ~created
              /\ Propagate("init")
         ELSE /\ guid' = out.obj["guid"]
              /\ store' = IF created THEN finance_save(store, NewFinance(out.obj["guid"]))
                          ELSE store
              /\ last_step' = "init"
              /\ LoopTop
              /\ UNCHANGED <<toolVars, normVars, cfg, articles, finance, inspect_json, decision,
                             financial_data_summary, analysis_summary,
                             finance_final, result, errors>>

----------------------------------------------------------------------------
(* Step 2: the enrichment loop (lines 175-241) *)

\* _load_finance_with_entity: the entity collaborator relays finance_load, and
\* its answer goes through _parse_json_output
LoadOutputs == {Raises, NoJson, Json(finance_load(store, guid))}

\* line 177 resumes: required_missing, then the guards in order (178-202),
\* up to the await of the chosen collaborator
LoadReturns ==
    /\ pc = "await_load"
    /\ \E out \in LoadOutputs :
         IF ~ParseOk(out)
         THEN Propagate("finance_load")
         ELSE /\ finance' = out.obj
              /\ Await(calls, GuardChain(out.obj, cfg.required_fields, articles))
              /\ UNCHANGED <<toolVars, normVars, cfg, guid, store, articles, iteration, last_step,
                             inspect_json, decision, loop_exit, financial_data_summary,
                             analysis_summary, finance_final, result, errors>>

\* what an entity run may have saved into the record
EntityWrites == {{}, {"ticker"}, IdentityFields, IdentityFields \cup {"Price"}}

\* mutant: the default branch records the step the delegate named
EntityReturnsRecordsAnswer ==
    /\ pc \in {"await_entity", "await_next_entity", "await_default_entity"}
    /\ \/ Propagate("entity")
       \/ \E W \in EntityWrites, keep \in BOOLEAN :
            /\ store' = Enrich(store, guid, W, keep)
            /\ last_step' = IF pc = "await_default_entity" THEN Get(decision, "next_step")
                            ELSE "entity"
            /\ LoopTop
            /\ UNCHANGED <<toolVars, normVars, cfg, guid, articles, finance, inspect_json, decision,
                           financial_data_summary, analysis_summary,
                           finance_final, result, errors>>

\* entity_agent.run returns (lines 183-185, 228-232, 240-241); its text is not parsed
EntityReturns ==
    /\ pc \in {"await_entity", "await_next_entity", "await_default_entity"}
    /\ \/ Propagate("entity")
       \/ \E W \in EntityWrites, keep \in BOOLEAN :
            /\ store' = Enrich(store, guid, W, keep)
            /\ last_step' = "entity"
            /\ LoopTop
            /\ UNCHANGED <<toolVars, normVars, cfg, guid, articles, finance, inspect_json, decision,
                           financial_data_summary, analysis_summary,
                           finance_final, result, errors>>

\* news_agent.run returns (lines 193-195, 234-235); articles_save may have run
NewsReturns ==
    /\ pc \in {"await_news", "await_next_news"}
    /\ \/ Propagate("news")
       \/ \E saved \in BOOLEAN :
            /\ articles' = IF saved THEN articles + 1 ELSE articles
            /\ last_step' = "news"
            /\ LoopTop
            /\ UNCHANGED <<toolVars, normVars, cfg, guid, store, finance, inspect_json, decision,
                           financial_data_summary, analysis_summary,
                           finance_final, result, errors>>

\* what a sentiment run may have saved into the record
SentimentWrites == {{}, {"News_Sentiment"}}

\* sentiment_agent.run returns inside the loop (lines 200-202, 237-238)
SentimentReturns ==
    /\ pc \in {"await_sentiment", "await_next_sentiment"}
    /\ \/ Propagate("sentiment")
       \/ \E W \in SentimentWrites, keep \in BOOLEAN :
            /\ store' = Enrich(store, guid, W, keep)
            /\ last_step' = "sentiment"
            /\ LoopTop
            /\ UNCHANGED <<toolVars, normVars, cfg, guid, articles, finance, inspect_json, decision,
                           financial_data_summary, analysis_summary,
                           finance_final, result, errors>>

\* the inspector's report: only suggested_fix is read by the driver
InspectorOutputs ==
    {Raises, NoJson,
     Json([ok |-> "true", suggested_fix |-> ""]),
     Json([ok |-> "false", suggested_fix |-> "v"])}

\* inspector_agent.run returns (lines 206-218)
InspectorReturns ==
    /\ pc = "await_inspector"
    /\ \E out \in InspectorOutputs :
         IF ~ParseOk(out)
         THEN Propagate("inspector")
         ELSE /\ inspect_json' = out.obj
              /\ Await(calls, "await_orchestrator")
              /\ UNCHANGED <<toolVars, normVars, cfg, guid, store, articles, iteration, last_step,
                             finance, decision, loop_exit, financial_data_summary,
                             analysis_summary, finance_final, result, errors>>

\* next_step values a delegate can name: the four of the enumeration, a null,
\* and a step outside the enumeration
NextSteps == {"entity", "news", "sentiment", "final", "", "bogus"}

DecisionOutputs ==
    {Raises, NoJson, Json([note |-> "v"])}
      \cup {Json([next_step |-> ns, note |-> "v"]) : ns \in NextSteps}

\* mutant: a missing next_step defaults to entity
NextStepOfDefaultEntity(d) == GetDefault(d, "next_step", "entity")

\* next_step = decision.get("next_step", "final")
NextStepOf(d) == GetDefault(d, "next_step", "final")

\* the if/elif/else of lines 227-241
Dispatch(next_step) ==
    IF next_step = "entity" THEN "await_next_entity"
    ELSE IF next_step = "news" THEN "await_next_news"
    ELSE IF next_step = "sentiment" THEN "await_next_sentiment"
    ELSE "await_default_entity"

\* orchestrator_agent.run returns (lines 219-241)
OrchestratorReturns ==
    /\ pc = "await_orchestrator"
    /\ \E out \in DecisionOutputs :
         IF ~ParseOk(out)
         THEN Propagate("orchestrator")
         ELSE /\ decision' = out.obj
              /\ IF NextStepOf(out.obj) = "final"
                 THEN Break
                 ELSE /\ Await(calls, Dispatch(NextStepOf(out.obj)))
                      /\ UNCHANGED <<iteration, loop_exit>>
              /\ UNCHANGED <<toolVars, normVars, cfg, guid, store, articles, last_step, finance,
                             inspect_json, financial_data_summary,
                             analysis_summary, finance_final, result, errors>>

----------------------------------------------------------------------------
(* Step 3: comprehensive data (lines 243-260) *)

\* mutant: the data collaborator is called whatever the ticker is
AfterDataLoadUnchecked(fin, c) == Await(c, "await_financial_data")

\* mutant: without a ticker the run goes back to the entity step of the loop
AfterDataLoadBackToLoop(fin, c) ==
    IF Get(fin, "ticker") # ""
    THEN Await(c, "await_financial_data")
    ELSE Await(c, "await_entity")

\* ticker = finance.get("ticker"); if ticker: call the data collaborator,
\* else print a warning and go on (lines 248-260)
AfterDataLoad(fin, c) ==
    IF Get(fin, "ticker") # ""
    THEN Await(c, "await_financial_data")
    ELSE Step4(c)

\* line 247 resumes with the reloaded record
DataLoadReturns ==
    /\ pc = "await_data_load"
    /\ \E out \in LoadOutputs :
         IF ~ParseOk(out)
         THEN Propagate("finance_load")
         ELSE /\ finance' = out.obj
              /\ AfterDataLoad(out.obj, calls)
              /\ UNCHANGED <<toolVars, normVars, cfg, guid, store, articles, iteration, last_step,
                             inspect_json, decision, loop_exit, financial_data_summary,
                             analysis_summary, finance_final, result, errors>>

\* the data collaborator's summary; an empty object is a legal JSON object
DataOutputs ==
    {Raises, NoJson, Json(EmptyDict), Json([data_fetched |-> "profile"])}

\* what a data run may have saved into the record
DataWrites == {{}, {"Price"}}

\* financial_data_agent.run returns (lines 251-258)
FinancialDataReturns ==
    /\ pc = "await_financial_data"
    /\ \E out \in DataOutputs :
         IF ~ParseOk(out)
         THEN Propagate("financial_data")
         ELSE \E W \in DataWrites :
              /\ financial_data_summary' = Some(out.obj)
              /\ store' = Enrich(store, guid, W, TRUE)
              /\ Step4(calls)
              /\ UNCHANGED <<toolVars, normVars, cfg, guid, articles, iteration, last_step, finance,
                             inspect_json, decision, loop_exit, analysis_summary,
                             finance_final, result, errors>>

----------------------------------------------------------------------------
(* Step 4: analysis (lines 262-280) *)

AnalysisOutputs ==
    {Raises, NoJson, Json(EmptyDict), Json([recommendation |-> "Buy"])}

\* the except branch of lines 274-280
AnalysisFailed ==
    [error |-> "e",
     message |-> "Financial analysis could not be completed. Data extraction was successful."]

\* mutant: the except branch leaves analysis_summary without the error note
HandledNoNote(out) == IF ParseOk(out) THEN out.obj ELSE EmptyDict

\* try/except Exception around the analysis call and its normalization
Handled(out) == IF ParseOk(out) THEN out.obj ELSE AnalysisFailed

\* analysis_agent.run returns (lines 267-280)
AnalysisReturns ==
    /\ pc = "await_analysis"
    /\ \E out \in AnalysisOutputs :
         /\ analysis_summary' = Some(Handled(out))
         /\ errors' = IF ParseOk(out) THEN errors
                      ELSE errors \cup {"financial_analysis"}
         /\ Step5(calls)
         /\ UNCHANGED <<toolVars, normVars, cfg, guid, store, articles, iteration, last_step, finance,
                        inspect_json, decision, loop_exit, financial_data_summary,
                        finance_final, result>>

----------------------------------------------------------------------------
(* Step 5: final compilation (lines 282-302) *)

\* finance_final is loaded (line 284), then the sentiment collaborator is called
FinalLoadReturns ==
    /\ pc = "await_final_load"
    /\ \E out \in LoadOutputs :
         IF ~ParseOk(out)
         THEN Propagate("finance_load")
         ELSE /\ finance_final' = out.obj
              /\ Await(calls, "await_final_sentiment")
              /\ UNCHANGED <<toolVars, normVars, cfg, guid, store, articles, iteration, last_step,
                             finance, inspect_json, decision, loop_exit,
                             financial_data_summary, analysis_summary, result,
                             errors>>

SentimentOutputs ==
    {Raises, NoJson, Json([guid |-> "g1", sentiment |-> "Neutral"])}

\* the value stored under an optional key of the result
TheDict(opt) == CHOOSE d \in opt : TRUE

\* mutant: the optional keys are always present
CompileAlwaysOptional(g, ls, fin, sentiment_json, data, analysis) ==
    [k \in {"guid", "last_step", "finance", "summary_sentiment", "mcp_tools_file",
            "financial_data", "analysis"} |->
       CASE k = "guid" -> g
         [] k = "last_step" -> ls
         [] k = "finance" -> fin
         [] k = "summary_sentiment" -> sentiment_json
         [] k = "mcp_tools_file" -> "tools_enhanced.py"
         [] k = "financial_data" -> IF data = None THEN EmptyDict ELSE TheDict(data)
         [] k = "analysis" -> IF analysis = None THEN EmptyDict ELSE TheDict(analysis)]

\* mutant: the record is read again after the sentiment call
CompileReloaded(g, ls, fin, sentiment_json, data, analysis) ==
    [k \in {"guid", "last_step", "finance", "summary_sentiment", "mcp_tools_file"}
           \cup (IF Truthy(data) THEN {"financial_data"} ELSE {})
           \cup (IF Truthy(analysis) THEN {"analysis"} ELSE {}) |->
       CASE k = "guid" -> g
         [] k = "last_step" -> ls
         [] k = "finance" -> finance_load(store', g)
         [] k = "summary_sentiment" -> sentiment_json
         [] k = "mcp_tools_file" -> "tools_enhanced.py"
         [] k = "financial_data" -> TheDict(data)
         [] k = "analysis" -> TheDict(analysis)]

\* result = {...}; the two optional keys are added under `if x:` (lines 288-300)
Compile(g, ls, fin, sentiment_json, data, analysis) ==
    [k \in {"guid", "last_step", "finance", "summary_sentiment", "mcp_tools_file"}
           \cup (IF Truthy(data) THEN {"financial_data"} ELSE {})
           \cup (IF Truthy(analysis) THEN {"analysis"} ELSE {}) |->
       CASE k = "guid" -> g
         [] k = "last_step" -> ls
         [] k = "finance" -> fin
         [] k = "summary_sentiment" -> sentiment_json
         [] k = "mcp_tools_file" -> "tools_enhanced.py"
         [] k = "financial_data" -> TheDict(data)
         [] k = "analysis" -> TheDict(analysis)]

\* sentiment_agent.run returns (lines 285-302) and the run returns result
FinalSentimentReturns ==
    /\ pc = "await_final_sentiment"
    /\ \E out \in SentimentOutputs :
         IF ~ParseOk(out)
         THEN Propagate("sentiment_final")
         ELSE \E W \in SentimentWrites :
              /\ store' = Enrich(store, guid, W, TRUE)
              /\ result' = Compile(guid, last_step, finance_final, out.obj,
                                   financial_data_summary, analysis_summary)
              /\ pc' = "returned"
              /\ UNCHANGED <<toolVars, normVars, cfg, guid, articles, iteration, last_step, finance,
                             inspect_json, decision, loop_exit, financial_data_summary,
                             analysis_summary, finance_final, calls, errors>>

----------------------------------------------------------------------------

Next ==
    \/ InitAgentReturns
    \/ LoadReturns
    \/ EntityReturns
    \/ NewsReturns
    \/ SentimentReturns
    \/ InspectorReturns
    \/ OrchestratorReturns
    \/ DataLoadReturns
    \/ FinancialDataReturns
    \/ AnalysisReturns
    \/ FinalLoadReturns
    \/ FinalSentimentReturns

Spec == Init /\ [][Next]_vars

----------------------------------------------------------------------------
(* Properties of the pipeline driver *)

\* the awaits of one loop iteration after its record load
BodyAwaits ==
    {"await_entity", "await_news", "await_sentiment", "await_inspector",
     "await_orchestrator", "await_next_entity", "await_next_news",
     "await_next_sentiment", "await_default_entity"}

\* the awaits reached through the delegate's decision
DelegateAwaits ==
    {"await_next_entity", "await_next_news", "await_next_sentiment",
     "await_default_entity"}

\* f is listed as required and empty in the record loaded in this iteration
MissingRequired(f) ==
    /\ \E i \in 1..Len(cfg.required_fields) : cfg.required_fields[i] = f
    /\ (f \notin DOMAIN finance \/ finance[f] = "")

IdentityMissing == \E f \in IdentityFields : MissingRequired(f)

SentimentEmpty == "News_Sentiment" \notin DOMAIN finance \/ finance["News_Sentiment"] = ""

\* C1: the loop starts at most max_loops iterations (record loads), whatever
\* the collaborators answered, and every iteration in progress is within the cap
C1_IterationCap ==
    /\ iteration <= cfg.max_loops
    /\ (pc \in BodyAwaits \cup {"await_load"} => iteration \in 1..cfg.max_loops)

C1_Witness ==
    /\ loop_exit = "cap"
    /\ iteration = cfg.max_loops
    /\ cfg.max_loops >= 2
    /\ last_step = "sentiment"

\* C2: within an iteration the guards are taken in the order entity, news,
\* sentiment, decide: a missing required identity field always gives the entity
\* step, whatever the news artifact and the sentiment are; otherwise an absent
\* artifact gives news; otherwise an empty sentiment gives sentiment
C2_GuardPriority ==
    pc \in BodyAwaits =>
      /\ IdentityMissing => pc = "await_entity"
      /\ (~IdentityMissing /\ articles = 0) => pc = "await_news"
      /\ (~IdentityMissing /\ articles > 0 /\ SentimentEmpty) => pc = "await_sentiment"
      /\ (MissingRequired("ticker") /\ SentimentEmpty) => pc # "await_sentiment"

C2_Witness ==
    /\ pc = "await_entity"
    /\ MissingRequired("ticker")
    /\ SentimentEmpty
    /\ articles > 0

\* C3: the inspector and the delegate are called in an iteration only if none
\* of the three guards fired; with the identity fields present, the artifact
\* there and the sentiment empty, the sentiment step runs and the delegate has
\* not been called in that iteration
C3_DelegateOnlyWhenInconclusive ==
    pc \in BodyAwaits =>
      /\ ("inspector_agent" \in Range(calls) \/ "orchestrator_agent" \in Range(calls))
            => (~IdentityMissing /\ articles > 0 /\ ~SentimentEmpty)
      /\ ((\A f \in IdentityFields : Get(finance, f) # "") /\ articles > 0 /\ SentimentEmpty)
            => /\ pc = "await_sentiment"
               /\ "inspector_agent" \notin Range(calls)
               /\ "orchestrator_agent" \notin Range(calls)

C3_Witness ==
    /\ pc = "await_sentiment"
    /\ \A f \in IdentityFields : Get(finance, f) # ""
    /\ articles > 0
    /\ SentimentEmpty
    /\ calls = <<"finance_load", "sentiment_agent">>

\* the delegate's object has no next_step key
NoNextStep(d) == "next_step" \notin DOMAIN d

\* the steps the dispatch recognizes by name
NamedSteps == {"entity", "news", "sentiment", "final"}

\* C4 as stated: a response without next_step, or naming a step outside the
\* enumeration, leads to the entity step, and the loop ends on a final
\* decision only if the response names final
C4_DefaultIsEntity ==
    /\ (pc \in DelegateAwaits /\ (NoNextStep(decision) \/ decision["next_step"] \notin NamedSteps))
          => pc = "await_default_entity"
    /\ loop_exit = "final" => (~NoNextStep(decision) /\ decision["next_step"] = "final")

\* C4 amended: a next_step that is present but outside the enumeration (null
\* included) leads to the entity step; a response without the next_step key is
\* taken as final and ends the loop, it never starts a step
C4_MissingKeyIsFinal ==
    /\ pc \in DelegateAwaits =>
         /\ ~NoNextStep(decision)
         /\ decision["next_step"] # "final"
         /\ (decision["next_step"] \notin NamedSteps <=> pc = "await_default_entity")
    /\ loop_exit = "final" => (NoNextStep(decision) \/ decision["next_step"] = "final")

C4_Witness ==
    /\ pc = "await_default_entity"
    /\ decision["next_step"] = "bogus"

\* a failure raised by a stage after the loop
LaterStageError == errors \cap {"finance_load", "financial_data", "sentiment_final"} # {}

\* C5: exhausting the budget is a normal exit: the run goes on with the later
\* stages, fails only if one of them fails, and a returned result carries the
\* record loaded in final compilation and the last enrichment step executed
C5_CapIsNormalTermination ==
    loop_exit = "cap" =>
      /\ iteration = cfg.max_loops
      /\ pc \in {"await_data_load", "await_financial_data", "await_analysis",
                 "await_final_load", "await_final_sentiment", "returned", "failed"}
      /\ pc = "failed" => LaterStageError
      /\ last_step \in {"entity", "news", "sentiment"}
      /\ pc = "returned" =>
           /\ result["last_step"] = last_step
           /\ result["finance"] = finance_final
           /\ result["guid"] = guid

C5_Witness ==
    /\ pc = "returned"
    /\ loop_exit = "cap"
    /\ cfg.max_loops >= 2
    /\ result["last_step"] = "news"

\* the loop has just exited on a final decision: finance is still the record
\* loaded in the exiting iteration (Step 3 has not reloaded it)
ExitedOnFinal ==
    /\ loop_exit = "final"
    /\ pc \in {"await_data_load", "await_analysis", "await_final_load"}
    /\ Len(calls) = 1

\* C6 as stated: a loop that exits on a final decision before the budget is
\* used up has every required field populated in the record it loaded last
C6_EarlyExitMeansComplete ==
    (ExitedOnFinal /\ iteration < cfg.max_loops) =>
        \A i \in 1..Len(cfg.required_fields) : Get(finance, cfg.required_fields[i]) # ""

\* C6 amended: before the budget is used up the loop exits only on a final
\* decision or on a failure that ends the run; on a final decision the
\* required fields among ticker, description, currency, isin and the sentiment
\* are populated in the record loaded last and the news artifact exists, while
\* any other required field may still be empty
C6_EarlyExitMeansGuardsPassed ==
    /\ (loop_exit # "running" /\ iteration < cfg.max_loops) => loop_exit \in {"final", "error"}
    /\ loop_exit = "error" => pc = "failed"
    /\ (ExitedOnFinal /\ iteration < cfg.max_loops) =>
          /\ \A i \in 1..Len(cfg.required_fields) :
                cfg.required_fields[i] \in IdentityFields \cup {"News_Sentiment"}
                   => Get(finance, cfg.required_fields[i]) # ""
          /\ Get(finance, "News_Sentiment") # ""
          /\ articles > 0

C6_Witness ==
    /\ ExitedOnFinal
    /\ iteration < cfg.max_loops
    /\ MissingRequired("Price")

\* the keys every result carries
MandatoryKeys == {"guid", "last_step", "finance", "summary_sentiment"}

\* C7 as stated: once the analysis stage has failed the run still returns, with
\* the mandatory keys, the extended data whenever the data stage succeeded, and
\* the partial analysis object
C7_AnalysisFailureStillReturns ==
    ("financial_analysis" \in errors /\ pc \in {"returned", "failed"}) =>
        /\ pc = "returned"
        /\ MandatoryKeys \subseteq DOMAIN result
        /\ financial_data_summary # None => "financial_data" \in DOMAIN result
        /\ "analysis" \in DOMAIN result
        /\ result["analysis"] = AnalysisFailed

\* C7 amended: a failed analysis stage is caught and the run goes on with final
\* compilation, so it ends in failure only if final compilation fails; a
\* returned result has the mandatory keys, the partial analysis object with the
\* error and the note, and the extended data when the data stage produced a
\* non-empty object
C7_AnalysisFailureIsDowngraded ==
    "financial_analysis" \in errors =>
        /\ pc \in {"await_final_load", "await_final_sentiment", "returned", "failed"}
        /\ analysis_summary = Some(AnalysisFailed)
        /\ pc = "failed" => errors \cap {"finance_load", "sentiment_final"} # {}
        /\ pc = "returned" =>
             /\ MandatoryKeys \subseteq DOMAIN result
             /\ result["analysis"] = AnalysisFailed
             /\ {"error", "message"} \subseteq DOMAIN result["analysis"]
             /\ Truthy(financial_data_summary) =>
                  result["financial_data"] = TheDict(financial_data_summary)

C7_Witness ==
    /\ pc = "returned"
    /\ "financial_analysis" \in errors
    /\ "financial_data" \in DOMAIN result
    /\ result["analysis"] = AnalysisFailed

\* C8: a failure of any stage but analysis ends the run: no result, and no
\* further step of the driver (no later stage, no other call, no retry)
C8_OtherFailuresPropagate ==
    /\ (errors \ {"financial_analysis"}) # {} =>
          /\ pc = "failed"
          /\ result = EmptyDict
          /\ ~ENABLED Next
    /\ pc = "failed" => (errors \ {"financial_analysis"}) # {}

C8_Witness ==
    /\ pc = "failed"
    /\ "financial_data" \in errors
    /\ calls = <<"finance_load", "financial_data_agent">>

\* Step 3 has reloaded the record and gone on
DataLoaded ==
    /\ cfg.fetch_comprehensive_data
    /\ loop_exit \in {"cap", "final"}
    /\ Len(calls) >= 2

\* C9: the data collaborator is called only for a reloaded record with a
\* non-empty ticker; with an empty ticker the stage is skipped, the next stage
\* starts and the result has no extended data
C9_DataStageNeedsTicker ==
    /\ "financial_data_agent" \in Range(calls) => (DataLoaded /\ Get(finance, "ticker") # "")
    /\ (DataLoaded /\ Get(finance, "ticker") = "") =>
          /\ calls[2] = (IF cfg.perform_analysis THEN "analysis_agent" ELSE "finance_load")
          /\ financial_data_summary = None
          /\ "financial_data" \notin errors
          /\ pc = "returned" => "financial_data" \notin DOMAIN result

C9_Witness ==
    /\ pc = "returned"
    /\ DataLoaded
    /\ Get(finance, "ticker") = ""
    /\ "financial_data" \notin DOMAIN result

\* C10: a returned aggregate always has guid, last_step, finance and
\* summary_sentiment; financial_data only if the data collaborator ran and
\* analysis only if the analysis collaborator ran; nothing is returned otherwise
C10_ResultShape ==
    /\ pc = "returned" =>
          /\ MandatoryKeys \subseteq DOMAIN result
          /\ "financial_data" \in DOMAIN result => "financial_data_agent" \in Range(calls)
          /\ "analysis" \in DOMAIN result => "analysis_agent" \in Range(calls)
    /\ pc # "returned" => result = EmptyDict

C10_Witness ==
    /\ pc = "returned"
    /\ "financial_data" \notin DOMAIN result
    /\ "analysis" \in DOMAIN result
    /\ "financial_data_agent" \in Range(calls)

----------------------------------------------------------------------------
(* The record store under its callers: finance_init, finance_load and        *)
(* finance_save called by two clients in any order (tools_enhanced.py)       *)

\* no pipeline run is in progress
RunIdle ==
    /\ cfg = [max_loops |-> 1, required_fields |-> DefaultRequired,
              fetch_comprehensive_data |-> FALSE, perform_analysis |-> FALSE]
    /\ pc = "idle"
    /\ guid = ""
    /\ articles = 0
    /\ iteration = 0
    /\ last_step = ""
    /\ finance = EmptyDict
    /\ inspect_json = EmptyDict
    /\ decision = EmptyDict
    /\ loop_exit = "running"
    /\ financial_data_summary = None
    /\ analysis_summary = None
    /\ finance_final = EmptyDict
    /\ result = EmptyDict
    /\ calls = <<>>
    /\ errors = {}

\* a record left in the store by an earlier run
PriorRecord ==
    [f \in FieldNames |-> IF f = "guid" THEN "g1"
                          ELSE IF f = "date" THEN "w" ELSE "v"]

\* the store is empty or holds a record of an earlier run
InitialStores == {[g \in {} |-> EmptyDict], [g \in {"g1"} |-> PriorRecord]}

StoreInit ==
    /\ RunIdle
    /\ NormalizerIdle
    /\ ToolsIdle
    /\ store \in InitialStores

\* the objects a caller may pass to finance_save besides its own modified copy
PayloadDicts ==
    {[ticker |-> "w"],
     [guid |-> "g1", ticker |-> "w"],
     [guid |-> "g1", Price |-> WrongType],
     [guid |-> "g2", description |-> "v", date |-> "w", extra |-> "v"]}

\* a caller's loaded record with its own field filled in
Modified(c) == [clients[c].local EXCEPT ![FieldOf(c)] = "w"]

\* the finance_json texts a caller may pass
SavePayloads(c) ==
    {Payload("object", d) : d \in PayloadDicts}
      \cup {Payload("embedded", [guid |-> "g1", ticker |-> "w"]),
            Payload("none", EmptyDict), Payload("invalid", EmptyDict)}
      \cup (IF "guid" \in DOMAIN clients[c].local
            THEN {Payload("object", Modified(c))} ELSE {})

\* what uuid4 may return now: an identifier not in use
FreshUuids == Uuids \ DOMAIN store

\* finance_init called by c
ClientInit(c) ==
    /\ last.n < MaxCalls
    /\ \E fresh \in FreshUuids :
         /\ store' = InitTool(store, fresh).store
         /\ last' = [op |-> "finance_init", client |-> c, guid |-> "",
                     payload |-> Payload("none", EmptyDict),
                     resp |-> InitTool(store, fresh).resp, before |-> store,
                     n |-> last.n + 1]
    /\ UNCHANGED <<clients, runVars, normVars>>

\* finance_load(g) called by c
ClientLoad(c, g) ==
    /\ last.n < MaxCalls
    /\ clients' = [clients EXCEPT ![c].local = finance_load(store, g)]
    /\ last' = [op |-> "finance_load", client |-> c, guid |-> g,
                payload |-> Payload("none", EmptyDict),
                resp |-> finance_load(store, g), before |-> store,
                n |-> last.n + 1]
    /\ UNCHANGED <<store, runVars, normVars>>

\* finance_save called by c with one of its payloads
ClientSave(c) ==
    /\ last.n < MaxCalls
    /\ \E p \in SavePayloads(c), fresh \in (IF FreshUuids = {} THEN {""} ELSE FreshUuids) :
         /\ (fresh = "" /\ Extracts(p) /\ Validates(p.obj)) => Get(p.obj, "guid") # ""
         /\ store' = SaveTool(store, p, fresh).store
         /\ clients' = [clients EXCEPT
                          ![c].saved = IF "error" \in DOMAIN SaveTool(store, p, fresh).resp
                                       THEN clients[c].saved
                                       ELSE WithDefaults(Model(p.obj), fresh)]
         /\ last' = [op |-> "finance_save", client |-> c, guid |-> "", payload |-> p,
                     resp |-> SaveTool(store, p, fresh).resp, before |-> store,
                     n |-> last.n + 1]
    /\ UNCHANGED <<runVars, normVars>>

StoreNext ==
    \E c \in Clients :
       \/ ClientInit(c)
       \/ \E g \in Uuids : ClientLoad(c, g)
       \/ ClientSave(c)

SpecStore == StoreInit /\ [][StoreNext]_vars

----------------------------------------------------------------------------
(* Properties of the record store *)

\* the last call was a finance_save that reported success
SavedOk == last.op = "finance_save" /\ "error" \notin DOMAIN last.resp

\* the object of the last finance_save
SavedObj == last.payload.obj

\* C11 as stated: after a successful save of A, load of the returned
\* identifier gives A's value for every field A carries and an empty value for
\* every other field (the identifier itself aside), whatever was stored before
C11_LoadReturnsExactlySaved ==
    SavedOk =>
      \A f \in FieldNames \ {"guid"} :
         finance_load(store, last.resp["guid"])[f] = Get(SavedObj, f)

\* C11 amended: as above, except that a save of a record without a date
\* stores the current date; no value of the prior version survives
C11_LoadReturnsSavedWithDate ==
    SavedOk =>
      /\ "error" \notin DOMAIN finance_load(store, last.resp["guid"])
      /\ \A f \in FieldNames :
           finance_load(store, last.resp["guid"])[f] =
              (IF Get(SavedObj, f) # "" THEN SavedObj[f]
               ELSE IF f = "date" THEN Today
               ELSE IF f = "guid" THEN last.resp["guid"]
               ELSE "")

C11_Witness ==
    /\ SavedOk
    /\ last.resp["guid"] = "g1"
    /\ "g1" \in DOMAIN last.before
    /\ last.before["g1"]["description"] = "v"
    /\ last.before["g1"]["date"] = "w"
    /\ SavedObj = [guid |-> "g1", ticker |-> "w"]
    /\ store["g1"]["description"] = ""

\* C12: every stored record carries the key it is stored under as its guid,
\* and a call never removes a record or changes the guid of a stored record
C12_IdentifierIsKey ==
    /\ \A g \in DOMAIN store : store[g]["guid"] = g
    /\ \A g \in DOMAIN last.before :
          /\ g \in DOMAIN store
          /\ store[g]["guid"] = last.before[g]["guid"]

C12_Witness ==
    /\ SavedOk
    /\ last.resp["guid"] = "g2"
    /\ DOMAIN last.before = {"g1", "g2"}
    /\ store["g2"] # last.before["g2"]

\* the object of the last finance_save gives a declared field a value of a
\* type the field does not take
WrongTyped == \E k \in DOMAIN SavedObj \cap FieldNames : SavedObj[k] = WrongType

\* C13 as stated: a save whose payload text is not a JSON object, or whose
\* object has a field of a wrong type, returns an error object and leaves the
\* store as it was
C13_NonObjectIsRejected ==
    (last.op = "finance_save" /\ (last.payload.kind # "object" \/ WrongTyped))
       => ("error" \in DOMAIN last.resp /\ store = last.before)

\* C13 amended: a save from whose payload text no JSON object can be
\* extracted (no brace-delimited substring, or one that does not parse), or
\* whose object has a field of a wrong type, returns an error object and leaves
\* the store as it was; a payload that is not itself an object but holds one
\* (prose or an array around it) is saved like the object
C13_UnextractableIsRejected ==
    last.op = "finance_save" =>
      /\ (last.payload.kind \in {"none", "invalid"} \/ WrongTyped)
            => ("error" \in DOMAIN last.resp /\ store = last.before)
      /\ (last.payload.kind \in {"object", "embedded"} /\ ~WrongTyped)
            => (DOMAIN last.resp = {"guid"} /\ last.resp["guid"] \in DOMAIN store)
      /\ DOMAIN last.resp \in {{"guid"}, {"error"}}

C13_Witness ==
    /\ last.op = "finance_save"
    /\ last.payload = Payload("object", [guid |-> "g1", Price |-> WrongType])
    /\ "error" \in DOMAIN last.resp
    /\ "g1" \in DOMAIN store
    /\ store = last.before

\* C14: finance_load of an identifier the store does not hold returns an
\* object with an error key, of a known identifier the record (which has no
\* such key), and never changes the store
C14_NotFoundIsAValue ==
    last.op = "finance_load" =>
      /\ store = last.before
      /\ last.guid \notin DOMAIN store <=> "error" \in DOMAIN last.resp
      /\ last.guid \in DOMAIN store => last.resp = store[last.guid]
      /\ clients[last.client].local = last.resp

C14_Witness ==
    /\ last.op = "finance_load"
    /\ last.guid = "g2"
    /\ DOMAIN store = {"g1"}
    /\ DOMAIN last.resp = {"error"}

\* C15: finance_init stores its record under an identifier that was not in
\* the store, with exactly guid, date and prompt populated, and leaves every
\* record that was there as it was
C15_CreateIsFresh ==
    last.op = "finance_init" =>
      /\ last.resp["guid"] \notin DOMAIN last.before
      /\ last.resp["guid"] \in DOMAIN store
      /\ store[last.resp["guid"]]["guid"] = last.resp["guid"]
      /\ \A f \in FieldNames :
            store[last.resp["guid"]][f] # "" <=> f \in {"guid", "date", "prompt"}
      /\ \A g \in DOMAIN last.before : store[g] = last.before[g]

C15_Witness ==
    /\ last.op = "finance_init"
    /\ last.resp["guid"] = "g2"
    /\ "g1" \in DOMAIN last.before
    /\ last.before["g1"]["ticker"] = "w"

\* the caller of the last call saved a modified copy of a record that had
\* changed in the store since the caller loaded it
StaleSave ==
    /\ last.op = "finance_save"
    /\ "guid" \in DOMAIN clients[last.client].local
    /\ last.payload = Payload("object", Modified(last.client))
    /\ clients[last.client].local["guid"] \in DOMAIN last.before
    /\ last.before[clients[last.client].local["guid"]] # clients[last.client].local

\* C20: a save of a stale copy is neither refused nor detected: it reports
\* success and the stored record becomes exactly the stale copy with the
\* caller's change, so what another caller saved in between is gone
C20_LastWriterWins ==
    StaleSave =>
      /\ last.resp = [guid |-> clients[last.client].local["guid"]]
      /\ store[last.resp["guid"]] = Modified(last.client)
      /\ clients[last.client].saved = Modified(last.client)

C20_Witness ==
    /\ StaleSave
    /\ last.client = "c2"
    /\ clients["c1"].saved # EmptyDict
    /\ clients["c1"].saved["ticker"] = "w"
    /\ last.before["g1"] = clients["c1"].saved
    /\ clients["c2"].local["ticker"] = ""
    /\ last.resp = [guid |-> "g1"]
    /\ store["g1"]["ticker"] = ""
    /\ store["g1"]["News_Sentiment"] = "w"

----------------------------------------------------------------------------
(* The response normalizer (magentic_agent_enhanced.py 34-105). A text is a  *)
(* sequence of one-character strings; a decoded JSON value is kept as its    *)
(* type and its text without the whitespace between tokens.                  *)

Q == "\""
NL == "\n"
\* the backquote character, written ^ because a string here cannot hold one
Tick == "^"

\* whitespace of the alphabet: json's WHITESPACE and the regex class \s agree on it
Whitespace == {" ", NL}

Digits == {"1", "2"}

\* text[:500]
SnippetLen == 500

\* the character at i, "" beyond the end
At(t, i) == IF i \in 1..Len(t) THEN t[i] ELSE ""

\* the end of the run of whitespace that starts at i
SkipWs(t, i) ==
    CHOOSE j \in i..(Len(t) + 1) :
        /\ At(t, j) \notin Whitespace
        /\ \A k \in i..(j - 1) : t[k] \in Whitespace

\* the first index from i on that holds a character of S, 0 when there is none
IndexOf(t, i, S) ==
    IF \E j \in i..Len(t) : t[j] \in S
    THEN CHOOSE j \in i..Len(t) : t[j] \in S /\ \A k \in i..(j - 1) : t[k] \notin S
    ELSE 0

\* mutant: no truncation
TakeAll(t, n) == t

\* t[:n]
Take(t, n) == IF Len(t) <= n THEN t ELSE SubSeq(t, 1, n)

Fail == [ok |-> FALSE, pos |-> 0, type |-> "", canon |-> <<>>]

Value(pos, type, canon) == [ok |-> TRUE, pos |-> pos, type |-> type, canon |-> canon]

\* json scanstring (strict): up to the closing quote, no control character inside
ParseString(t, i) ==
    LET j == IndexOf(t, i + 1, {Q})
    IN  IF j = 0 \/ \E k \in (i + 1)..(j - 1) : t[k] = NL
        THEN Fail
        ELSE Value(j + 1, "string", SubSeq(t, i, j))

\* json NUMBER_RE on the digits of the alphabet
ParseNumber(t, i) ==
    LET j == CHOOSE m \in (i + 1)..(Len(t) + 1) :
                 /\ At(t, m) \notin Digits
                 /\ \A k \in i..(m - 1) : t[k] \in Digits
    IN  Value(j, "number", SubSeq(t, i, j - 1))

RECURSIVE ParseValue(_, _), ParseMembers(_, _, _), ParseElements(_, _, _)

\* json scan_once at i
ParseValue(t, i) ==
    CASE At(t, i) = Q -> ParseString(t, i)
      [] At(t, i) \in Digits -> ParseNumber(t, i)
      [] At(t, i) = "{" ->
            IF At(t, SkipWs(t, i + 1)) = "}"
            THEN Value(SkipWs(t, i + 1) + 1, "object", <<"{", "}">>)
            ELSE ParseMembers(t, SkipWs(t, i + 1), <<"{">>)
      [] At(t, i) = "[" ->
            IF At(t, SkipWs(t, i + 1)) = "]"
            THEN Value(SkipWs(t, i + 1) + 1, "array", <<"[", "]">>)
            ELSE ParseElements(t, SkipWs(t, i + 1), <<"[">>)
      [] OTHER -> Fail

\* json JSONObject: the pairs from i on, acc is the text decoded so far
ParseMembers(t, i, acc) ==
    IF At(t, i) # Q THEN Fail
    ELSE LET key == ParseString(t, i)
         IN  IF ~key.ok \/ At(t, SkipWs(t, key.pos)) # ":" THEN Fail
             ELSE LET v == ParseValue(t, SkipWs(t, SkipWs(t, key.pos) + 1))
                  IN  IF ~v.ok THEN Fail
                      ELSE LET m == SkipWs(t, v.pos)
                               sofar == acc \o key.canon \o <<":">> \o v.canon
                           IN  IF At(t, m) = "}"
                               THEN Value(m + 1, "object", sofar \o <<"}">>)
                               ELSE IF At(t, m) = ","
                               THEN ParseMembers(t, SkipWs(t, m + 1), sofar \o <<",">>)
                               ELSE Fail

\* json JSONArray: the elements from i on
ParseElements(t, i, acc) ==
    LET v == ParseValue(t, i)
    IN  IF ~v.ok THEN Fail
        ELSE LET m == SkipWs(t, v.pos)
             IN  IF At(t, m) = "]"
                 THEN Value(m + 1, "array", acc \o v.canon \o <<"]">>)
                 ELSE IF At(t, m) = ","
                 THEN ParseElements(t, SkipWs(t, m + 1), acc \o v.canon \o <<",">>)
                 ELSE Fail

\* json.loads(text): one value, whitespace around it, nothing else
Loads(t) ==
    LET v == ParseValue(t, SkipWs(t, 1))
    IN  IF v.ok /\ SkipWs(t, v.pos) = Len(t) + 1 THEN v ELSE Fail

\* mutant: any decoded value is accepted
IsDictUnchecked(v) == v.ok

\* isinstance(parsed, dict)
IsDict(v) == v.ok /\ v.type = "object"


\* t[i-1:]
Rest(t, i) == IF i > Len(t) THEN <<>> ELSE SubSeq(t, i, Len(t))

\* re.sub(pat + r'\s*', '', t): each occurrence of pat, with the whitespace
\* after it, is removed, scanning from i (the scan goes from one candidate
\* character to the next)
RECURSIVE RemoveFrom(_, _, _)
RemoveFrom(t, i, pat) ==
    LET j == IndexOf(t, i, {pat[1]})
    IN  IF j = 0 THEN Rest(t, i)
        ELSE IF j + Len(pat) - 1 <= Len(t) /\ SubSeq(t, j, j + Len(pat) - 1) = pat
        THEN SubSeq(t, i, j - 1) \o RemoveFrom(t, SkipWs(t, j + Len(pat)), pat)
        ELSE SubSeq(t, i, j) \o RemoveFrom(t, j + 1, pat)

\* the two substitutions of lines 48-49
StripFences(t) ==
    RemoveFrom(RemoveFrom(t, 1, <<Tick, Tick, Tick, "j", "s", "o", "n">>), 1,
               <<Tick, Tick, Tick>>)

\* re.search(r'\{.*\}', text, DOTALL): from the first opening brace to the
\* last closing brace after it; <<>> when there is no match
Search(t) ==
    LET a == IndexOf(t, 1, {"{"})
    IN  IF a = 0 \/ ~\E b \in (a + 1)..Len(t) : t[b] = "}"
        THEN <<>>
        ELSE SubSeq(t, a, CHOOSE b \in (a + 1)..Len(t) :
                              t[b] = "}" /\ \A k \in (b + 1)..Len(t) : t[k] # "}")

\* re.sub(r',(\s*[}\]])', r'\1', t): a comma whose next character after
\* whitespace closes an object or an array is dropped
RECURSIVE FixTrailing(_, _)
FixTrailing(t, i) ==
    LET j == IndexOf(t, i, {","})
    IN  IF j = 0 THEN Rest(t, i)
        ELSE IF At(t, SkipWs(t, j + 1)) \in {"}", "]"}
        THEN SubSeq(t, i, j - 1) \o FixTrailing(t, j + 1)
        ELSE SubSeq(t, i, j) \o FixTrailing(t, j + 1)

\* re.sub(r'"\s*\n\s*"', '",\n"', t): two quotes with only whitespace that
\* holds a newline between them get a comma
RECURSIVE FixMissing(_, _)
FixMissing(t, i) ==
    LET j == IndexOf(t, i, {Q})
    IN  IF j = 0 THEN Rest(t, i)
        ELSE IF /\ At(t, SkipWs(t, j + 1)) = Q
                /\ \E k \in (j + 1)..(SkipWs(t, j + 1) - 1) : t[k] = NL
        THEN SubSeq(t, i, j - 1) \o <<Q, ",", NL, Q>>
                \o FixMissing(t, SkipWs(t, j + 1) + 1)
        ELSE SubSeq(t, i, j) \o FixMissing(t, j + 1)

\* json_str.replace("'", '"')
FixQuotes(t) == [i \in 1..Len(t) |-> IF t[i] = "'" THEN Q ELSE t[i]]

\* re.sub(r',\s*}', '}', t) and re.sub(r',\s*]', ']', t): the comma and the
\* whitespace before the closing character are dropped
RECURSIVE FixBefore(_, _, _)
FixBefore(t, i, close) ==
    LET j == IndexOf(t, i, {","})
    IN  IF j = 0 THEN Rest(t, i)
        ELSE IF At(t, SkipWs(t, j + 1)) = close
        THEN SubSeq(t, i, j - 1) \o <<close>>
                \o FixBefore(t, SkipWs(t, j + 1) + 1, close)
        ELSE SubSeq(t, i, j) \o FixBefore(t, j + 1, close)

\* _try_fix_json(json_str): the five substitutions, one after the other
try_fix_json(t) ==
    FixBefore(FixBefore(FixQuotes(FixMissing(FixTrailing(t, 1), 1)), 1, "}"), 1, "]")

\* return parsed: the object, the pass that gave it, what was printed on the way
Returned(v, by, shown) ==
    [status |-> "ok", value |-> v.canon, type |-> v.type, pass |-> by,
     step |-> "", message |-> "", quoted |-> <<>>, printed |-> Take(shown, SnippetLen)]

\* raise ValueError(f"{step} output ..."): the message names the step and
\* quotes nothing of the text; the first 500 characters are printed
Raised(st, msg, shown) ==
    [status |-> "error", value |-> <<>>, type |-> "", pass |-> "",
     step |-> st, message |-> msg, quoted |-> <<>>, printed |-> Take(shown, SnippetLen)]

\* _parse_json_output(agent_output, step)
ParseJsonOutput(t, st) ==
    LET direct == Loads(t)
        text == StripFences(t)
        json_str == Search(text)
        parsed == Loads(json_str)
        fixed == Loads(try_fix_json(json_str))
    IN  IF IsDict(direct) THEN Returned(direct, "direct", <<>>)
        ELSE IF json_str = <<>> THEN Raised(st, "is not JSON", text)
        ELSE IF parsed.ok
        THEN (IF IsDict(parsed) THEN Returned(parsed, "extract", <<>>)
              ELSE Raised(st, "must be a JSON object", <<>>))
        ELSE IF IsDict(fixed) THEN Returned(fixed, "fixed", json_str)
        ELSE Raised(st, "has invalid JSON", json_str)

----------------------------------------------------------------------------
(* Texts handed to the normalizer *)

\* {"a":1}
ObjA1 ==
    <<"{", Q, "a", Q, ":", "1", "}">>

\* { "a" : 1 }
ObjSpaced ==
    <<"{", " ", Q, "a", Q, " ", ":", " ", "1", " ", "}">>

\* {"a":"x",\n"b":"y"}
ObjTwoPairs ==
    <<"{", Q, "a", Q, ":", Q, "x", Q, ",", NL, Q, "b", Q, ":", Q, "y", Q,
      "}">>

\* {"a":[1,2],"b":{"c":"d"}}
ObjNested ==
    <<"{", Q, "a", Q, ":", "[", "1", ",", "2", "]", ",", Q, "b", Q, ":", "{",
      Q, "c", Q, ":", Q, "d", Q, "}", "}">>

\* {"a":[1,2]}
ObjArray ==
    <<"{", Q, "a", Q, ":", "[", "1", ",", "2", "]", "}">>

\* {"a":"^^^"}
ObjTicks ==
    <<"{", Q, "a", Q, ":", Q, Tick, Tick, Tick, Q, "}">>

\* {"a":"it's"}
ObjApostrophe ==
    <<"{", Q, "a", Q, ":", Q, "i", "t", "'", "s", Q, "}">>

\* {"a":"x,}"}
ObjCommaBrace ==
    <<"{", Q, "a", Q, ":", Q, "x", ",", "}", Q, "}">>

\* {}
ObjEmpty ==
    <<"{", "}">>

\* {"a":[1,2,]}
ObjArrayComma ==
    <<"{", Q, "a", Q, ":", "[", "1", ",", "2", ",", "]", "}">>

\* Sure, here:\n
ProseSure ==
    <<"S", "u", "r", "e", ",", " ", "h", "e", "r", "e", ":", NL>>

\* ^^^json\n
FenceJson ==
    <<Tick, Tick, Tick, "j", "s", "o", "n", NL>>

\* ^^^\n
FencePlain ==
    <<Tick, Tick, Tick, NL>>

\* \n^^^
FenceClose ==
    <<NL, Tick, Tick, Tick>>

\* [1,2]
TextArray ==
    <<"[", "1", ",", "2", "]">>

\* 12
TextNumber ==
    <<"1", "2">>

\* "s"
TextString ==
    <<Q, "s", Q>>

\* [{"a":1}]
TextArrayOfObject ==
    <<"[", "{", Q, "a", Q, ":", "1", "}", "]">>

\* I cannot comply.
TextRefusal ==
    <<"I", " ", "c", "a", "n", "n", "o", "t", " ", "c", "o", "m", "p", "l",
      "y", ".">>

\* {"a":1} and {"b":2}
TextTwoObjects ==
    <<"{", Q, "a", Q, ":", "1", "}", " ", "a", "n", "d", " ", "{", Q, "b", Q,
      ":", "2", "}">>

\* {"a":"x"\n"b":"y"}
TextMissingComma ==
    <<"{", Q, "a", Q, ":", Q, "x", Q, NL, Q, "b", Q, ":", Q, "y", Q, "}">>

\* {'a':1}
TextSingleQuotes ==
    <<"{", "'", "a", "'", ":", "1", "}">>

\* {bad}
TextBad ==
    <<"{", "b", "a", "d", "}">>

\* here {"a":1} ok
TextProseAround ==
    <<"h", "e", "r", "e", " ", "{", Q, "a", Q, ":", "1", "}", " ", "o", "k">>

\* valid JSON objects
Objects ==
    {ObjA1, ObjSpaced, ObjTwoPairs, ObjNested, ObjArray, ObjTicks, ObjApostrophe,
     ObjCommaBrace, ObjEmpty}

Proses == {<<>>, ProseSure}

Opens == {FenceJson, FencePlain}

\* prose, an opening fence, the object, a closing fence
Fenced(p, open, o) == p \o open \o o \o FenceClose

FencedTexts == {Fenced(p, open, o) : p \in Proses, open \in Opens, o \in Objects}

\* the object text with a comma put before its last closing brace
TrailingComma(o) == SubSeq(o, 1, Len(o) - 1) \o <<",", "}">>

\* texts whose only defect is one trailing comma, each with the object meant
TrailingPairs ==
    {<<TrailingComma(o), o>> : o \in Objects \ {ObjEmpty}}
       \cup {<<ObjArrayComma, ObjArray>>}

\* a text longer than the printed snippet, without and with braces
LongProse == [i \in 1..(SnippetLen + 100) |-> "x"]

LongBraced == <<"{">> \o LongProse \o <<"}">>

Texts ==
    Objects \cup FencedTexts \cup {p[1] : p \in TrailingPairs}
       \cup {TextArray, TextNumber, TextString, TextArrayOfObject, TextRefusal,
             TextTwoObjects, TextMissingComma, TextSingleQuotes, TextBad,
             TextProseAround, LongProse, LongBraced}

\* the step names of the call sites (lines 114, 166, 207, 219, 257, 272, 286)
StepNames ==
    {"finance_load", "init", "inspector", "orchestrator", "financial_data",
     "financial_analysis", "sentiment_final"}

ParseInit ==
    /\ RunIdle
    /\ ToolsIdle
    /\ store = [g \in {} |-> EmptyDict]
    /\ agent_output \in Texts
    /\ step \in StepNames
    /\ normalized = [status |-> "none"]

\* one call of _parse_json_output
Normalize ==
    /\ normalized.status = "none"
    /\ normalized' = ParseJsonOutput(agent_output, step)
    /\ UNCHANGED <<runVars, store, toolVars, agent_output, step>>

SpecParse == ParseInit /\ [][Normalize]_vars

----------------------------------------------------------------------------
(* Properties of the normalizer *)

\* the normalizer has returned or raised
Normalized == normalized.status # "none"

\* v is the text of a JSON object
IsObjectText(v) == Loads(v).ok /\ Loads(v).type = "object"

\* C16: the normalizer returns one object or raises its error, never an
\* array or a scalar; a text that decodes verbatim to an array or a scalar is
\* not returned by the verbatim pass
C16_ObjectOrError ==
    Normalized =>
      /\ normalized.status \in {"ok", "error"}
      /\ normalized.status = "ok" =>
            (normalized.type = "object" /\ IsObjectText(normalized.value))
      /\ normalized.status = "error" => normalized.value = <<>>
      /\ (Loads(agent_output).ok /\ Loads(agent_output).type # "object")
            => normalized.pass # "direct"

C16_Witness ==
    /\ agent_output = TextArrayOfObject
    /\ Loads(agent_output).type = "array"
    /\ normalized.status = "ok"
    /\ normalized.pass = "extract"
    /\ normalized.value = ObjA1

\* C17 as stated: a valid JSON object between an opening and a closing fence,
\* with or without brace-free prose before it, normalizes to that object
C17_FencedObjectIsReturned ==
    \A p \in Proses, open \in Opens, o \in Objects :
       (Normalized /\ agent_output = Fenced(p, open, o))
          => (normalized.status = "ok" /\ normalized.value = Loads(o).canon)

\* C18 as stated: a text whose only defect is a trailing comma before a
\* closing brace or bracket normalizes to the object without that comma
C18_TrailingCommaIsRemoved ==
    \A pr \in TrailingPairs :
       (Normalized /\ agent_output = pr[1])
          => (normalized.status = "ok" /\ normalized.value = Loads(pr[2]).canon)

\* no pass yields an object for the text t
NoPassYields(t) ==
    /\ ~IsObjectText(t)
    /\ ~IsObjectText(Search(StripFences(t)))
    /\ ~IsObjectText(try_fix_json(Search(StripFences(t))))

\* C19 as stated: when no pass yields an object the normalizer raises its
\* error, and the error carries the step name and a bounded, non-empty snippet
\* of the text
C19_ErrorCarriesSnippet ==
    (Normalized /\ NoPassYields(agent_output)) =>
      /\ normalized.status = "error"
      /\ normalized.step = step
      /\ normalized.quoted # <<>>
      /\ Len(normalized.quoted) <= SnippetLen

\* C19 amended: when no pass yields an object, and only then, the normalizer
\* raises its error; the error's message names the step and quotes nothing of
\* the text; what is shown of the text is printed, and is its first 500
\* characters at most (of the text without fences, or of the brace-delimited
\* part of it)
C19_ErrorNamesStepOnly ==
    Normalized =>
      /\ normalized.status = "error" <=> NoPassYields(agent_output)
      /\ normalized.status = "error" =>
            /\ normalized.step = step
            /\ normalized.message \in {"is not JSON", "has invalid JSON"}
            /\ normalized.quoted = <<>>
            /\ Len(normalized.printed) <= SnippetLen
            /\ \E src \in {StripFences(agent_output), Search(StripFences(agent_output))} :
                  /\ Len(normalized.printed) = IF Len(src) < SnippetLen THEN Len(src) ELSE SnippetLen
                  /\ \A i \in 1..Len(normalized.printed) : normalized.printed[i] = src[i]

C19_Witness ==
    /\ agent_output = LongProse
    /\ Len(agent_output) > SnippetLen
    /\ normalized.status = "error"
    /\ normalized.step = step
    /\ normalized.message = "is not JSON"
    /\ Len(normalized.printed) = SnippetLen

----------------------------------------------------------------------------
(* Ordering properties of the pipeline driver *)

\* the awaits of the steps the guards choose
GuardAwaits == {"await_entity", "await_news", "await_sentiment", "await_inspector"}

\* C21: in every iteration the record is read first, the guards are then
\* evaluated on the record read in that iteration, the chosen step follows
\* (after the inspector and the delegate in the decide branch), and nothing
\* else of the iteration is in flight when the next read is issued
C21_IterationOrder ==
    /\ pc = "await_load" => calls = <<"finance_load">>
    /\ pc \in BodyAwaits =>
         /\ finance = finance_load(store, guid)
         /\ pc \in GuardAwaits =>
              /\ calls = <<"finance_load", Callee(pc)>>
              /\ pc = GuardChain(finance, cfg.required_fields, articles)
         /\ pc = "await_orchestrator" =>
              calls = <<"finance_load", "inspector_agent", "orchestrator_agent">>
         /\ pc \in DelegateAwaits =>
              /\ calls = <<"finance_load", "inspector_agent", "orchestrator_agent",
                           Callee(pc)>>
              /\ GuardChain(finance, cfg.required_fields, articles) = "await_inspector"

C21_Witness ==
    /\ pc = "await_next_sentiment"
    /\ iteration >= 3
    /\ last_step = "sentiment"
    /\ Len(calls) = 4
    /\ finance = store[guid]

\* the stage of the run each suspension point belongs to: 1 creation, 2 the
\* loop, 3 data collection, 4 analysis, 5 final compilation, 6 the run is over
StageOf(p) ==
    CASE p = "await_init" -> 1
      [] p \in BodyAwaits \cup {"await_load"} -> 2
      [] p \in {"await_data_load", "await_financial_data"} -> 3
      [] p = "await_analysis" -> 4
      [] p \in {"await_final_load", "await_final_sentiment"} -> 5
      [] OTHER -> 6

\* the run is suspended at an await
Suspended == pc \notin {"returned", "failed", "idle"}

\* C22: a run waits for one collaborator call at a time, the call issued
\* last, and a step resumes it only by completing that call: the step issues
\* at most one new call, and never one of an earlier stage
C22_OneCallInStageOrder ==
    /\ [](Suspended => (calls # <<>> /\ calls[Len(calls)] = Callee(pc)))
    /\ [][/\ Suspended
          /\ StageOf(pc') >= StageOf(pc)
          /\ pc' # pc
          /\ \/ calls' = calls
             \/ Len(calls') = 1
             \/ \E x \in {Callee(pc')} : calls' = Append(calls, x)
          /\ StageOf(pc') > StageOf(pc) => (pc' \in {"returned", "failed"} \/ calls' # calls)]_vars

C22_Witness ==
    /\ pc = "returned"
    /\ cfg.fetch_comprehensive_data
    /\ cfg.perform_analysis
    /\ iteration >= 2
    /\ calls = <<"finance_load", "financial_data_agent", "analysis_agent",
                 "finance_load", "sentiment_agent">>

----------------------------------------------------------------------------
(* The repair pass of the normalizer *)

\* the brace-delimited part of the text, as the normalizer finds it
JsonStr(t) == Search(StripFences(t))

\* the repairs as an ordered list with a parse after each: the first repaired
\* text that decodes to an object, <<>> when none does
FirstRepaired(js) ==
    LET a == FixTrailing(js, 1)
        b == FixMissing(a, 1)
        c == FixQuotes(b)
    IN  IF IsObjectText(a) THEN a
        ELSE IF IsObjectText(b) THEN b
        ELSE IF IsObjectText(c) THEN c
        ELSE <<>>

\* C23 as stated: when the brace-delimited part does not parse, the repairs
\* are tried one after the other with a parse after each, and the first text
\* that parses is returned; a text that parses once its trailing comma is
\* removed is returned without the quote replacement
C23_RepairsStopAtFirstSuccess ==
    (/\ Normalized
     /\ ~IsObjectText(agent_output)
     /\ JsonStr(agent_output) # <<>>
     /\ ~Loads(JsonStr(agent_output)).ok
     /\ FirstRepaired(JsonStr(agent_output)) # <<>>)
       => /\ normalized.status = "ok"
          /\ normalized.value = Loads(FirstRepaired(JsonStr(agent_output))).canon

----------------------------------------------------------------------------
(* The news artifact *)

\* C24 as stated: the news artifact of a run is saved at most once
C24_ArtifactSavedOnce == articles <= 1

\* C24 amended: the news step the guards choose runs only while the artifact
\* does not exist, so the guards never cause a second save; the news step the
\* delegate chooses runs only when the artifact exists, and may save it again
C24_OnlyDelegateSavesAgain ==
    /\ [](/\ pc = "await_news" => articles = 0
          /\ pc = "await_next_news" => articles >= 1)
    /\ [][articles' # articles =>
            /\ articles' = articles + 1
            /\ pc \in {"await_news", "await_next_news"}
            /\ articles >= 1 => pc = "await_next_news"]_vars

C24_Witness ==
    /\ articles = 2
    /\ last_step = "news"
    /\ pc = "await_load"
    /\ decision = [next_step |-> "news", note |-> "v"]

----------------------------------------------------------------------------
(* Exits of the loop and the guards *)

\* C26: the decide branch, and with it an exit on a final decision, is
\* reached only in an iteration whose record has no missing required identity
\* field and a non-empty sentiment, with the news artifact in place; the step
\* that sets the final exit is the delegate's answer of such an iteration
C26_FinalExitOnlyPastGuards ==
    /\ []((pc \in {"await_inspector", "await_orchestrator"} \/ ExitedOnFinal) =>
            /\ \A f \in IdentityFields : ~MissingRequired(f)
            /\ articles >= 1
            /\ Get(finance, "News_Sentiment") # "")
    /\ [][(loop_exit' = "final" /\ loop_exit # "final") =>
            /\ pc = "await_orchestrator"
            /\ calls = <<"finance_load", "inspector_agent", "orchestrator_agent">>
            /\ finance' = finance]_vars

C26_Witness ==
    /\ ExitedOnFinal
    /\ iteration >= 4
    /\ last_step = "sentiment"
    /\ cfg.required_fields = DefaultRequired
    /\ \A f \in IdentityFields : Get(finance, f) # ""
    /\ articles >= 1

----------------------------------------------------------------------------
(* The record placed in the result *)

\* C27: in final compilation the record is loaded, then the sentiment
\* collaborator is called, and no load follows: the record in the result is
\* the one loaded before that call, whatever the call saved
C27_ResultHoldsSnapshot ==
    /\ pc = "await_final_sentiment" =>
         /\ finance_final = finance_load(store, guid)
         /\ SubSeq(calls, Len(calls) - 1, Len(calls)) = <<"finance_load", "sentiment_agent">>
    /\ pc = "returned" =>
         /\ result["finance"] = finance_final
         /\ calls[Len(calls)] = "sentiment_agent"

C27_Witness ==
    /\ pc = "returned"
    /\ loop_exit = "cap"
    /\ guid \in DOMAIN store
    /\ Get(result["finance"], "News_Sentiment") = ""
    /\ store[guid]["News_Sentiment"] # ""
    /\ result["finance"] # store[guid]

----------------------------------------------------------------------------
(* last_step *)

LoopLabels == {"init", "entity", "news", "sentiment"}

\* the label the loop records when the step awaited at p completes
LabelOf(p) ==
    CASE p = "await_init" -> "init"
      [] p \in {"await_entity", "await_next_entity", "await_default_entity"} -> "entity"
      [] p \in {"await_news", "await_next_news"} -> "news"
      [] p \in {"await_sentiment", "await_next_sentiment"} -> "sentiment"
      [] OTHER -> ""

\* C28: once assigned (line 174) last_step is one of init, entity, news,
\* sentiment; it changes only when a step of the loop completes, to that
\* step's label, the entity step run for an unrecognized delegate answer being
\* recorded as entity; a final decision, the inspector, the delegate and the
\* stages after the loop leave it as it is, and the result carries it
C28_LastStepIsLastLoopStep ==
    /\ [](/\ (IF guid = "" THEN last_step = "" ELSE last_step \in LoopLabels)
          /\ pc = "returned" => result["last_step"] = last_step)
    /\ [][IF pc' # "failed" /\ LabelOf(pc) # ""
          THEN last_step' = LabelOf(pc)
          ELSE last_step' = last_step]_vars

C28_Witness ==
    /\ pc = "returned"
    /\ loop_exit = "final"
    /\ Get(decision, "next_step") = "final"
    /\ result["last_step"] = "entity"
    /\ iteration >= 4

----------------------------------------------------------------------------
(* A load of an identifier the store does not hold, inside the loop *)

\* the required-field list names an identity field
IdentityRequired == \E f \in IdentityFields : f \in Range(cfg.required_fields)

\* every load of the run's identifier answers with the error object
NeverFound == guid # "" /\ guid \notin DOMAIN store

\* C29: an error object loaded in the loop is taken as a record without
\* fields: with an identity field required the entity step is chosen, and
\* while the store has no record for the identifier the loop only runs
\* entity steps, uses up its budget and the run goes on to return with
\* last_step = entity and the error object as its record
C29_NotFoundIsAnEmptyRecord ==
    /\ (pc \in BodyAwaits /\ "error" \in DOMAIN finance) =>
          /\ \A f \in FieldNames : Get(finance, f) = ""
          /\ "finance_load" \notin errors
          /\ IdentityRequired => pc = "await_entity"
    /\ (NeverFound /\ IdentityRequired) =>
          /\ pc \in BodyAwaits => (pc = "await_entity" /\ "error" \in DOMAIN finance)
          /\ last_step \in {"init", "entity"}
          /\ loop_exit # "final"
          /\ loop_exit = "cap" => (iteration = cfg.max_loops /\ last_step = "entity")
          /\ pc = "returned" =>
               /\ loop_exit = "cap"
               /\ result["last_step"] = "entity"
               /\ "error" \in DOMAIN result["finance"]

C29_Witness ==
    /\ pc = "returned"
    /\ NeverFound
    /\ IdentityRequired
    /\ cfg.max_loops >= 3
    /\ iteration = cfg.max_loops
    /\ result["last_step"] = "entity"
    /\ "error" \in DOMAIN result["finance"]

----------------------------------------------------------------------------
(* The guards and the required-field list *)

\* C30: guard 1 fires exactly when an identity field that the configuration
\* lists as required is empty in the record, so with no identity field listed
\* it never fires, empty identity fields or not; guard 3 fires on an empty
\* sentiment once guards 1 and 2 have passed, whether the sentiment is listed
\* as required or not
C30_GuardsAndRequiredList ==
    pc \in BodyAwaits =>
      /\ pc = "await_entity" <=>
            \E f \in IdentityFields \cap Range(cfg.required_fields) : Get(finance, f) = ""
      /\ IdentityFields \cap Range(cfg.required_fields) = {} => pc # "await_entity"
      /\ (pc # "await_entity" /\ articles >= 1 /\ Get(finance, "News_Sentiment") = "")
            => pc = "await_sentiment"
      /\ pc = "await_sentiment" => Get(finance, "News_Sentiment") = ""

C30_Witness ==
    /\ cfg.required_fields = <<"guid", "News_Sentiment">>
    /\ pc = "await_orchestrator"
    /\ \A f \in IdentityFields : Get(finance, f) = ""
    /\ "error" \notin DOMAIN finance

====
